---- MODULE Spec2Model ----
(***************************************************************************)
(* Model of cod_umiditate_sol.ino: a RAK4630 soil-moisture / IR-temperature *)
(* LoRaWAN node.  setup() runs once (GPIO, MLX90632 probe, radio and stack  *)
(* initialisation, first OTAA join request); loop() then polls the radio,   *)
(* retries the join on a 120 s timer and sends a 6-byte sample on a 60 s    *)
(* timer.                                                                   *)
(*                                                                          *)
(* millis() is an unsigned 32-bit millisecond counter.  It is kept as two   *)
(* 16-bit halves [hi, lo] so that every addition, subtraction and           *)
(* comparison is exactly the 32-bit one of the sketch.  Real elapsed time   *)
(* is measured by the stopwatches sinceJoin and sinceSend, which never      *)
(* wrap.                                                                    *)
(*                                                                          *)
(* The vendor LoRaWAN stack and the sensor drivers are the environment:     *)
(* the stack holds the join status (joined) and at most one unanswered join *)
(* request (pending), and answers it from inside Radio.IrqProcess() with    *)
(* the join-success or the join-failed callback, once per request; it may   *)
(* also refuse a request inside lmh_join() itself (join-failed callback     *)
(* before the call returns) or, under SpecSilent, never answer it.          *)
(* lmh_send() may fail; the join status stays as it is.  The status line    *)
(* printed every 30 s (lines 255-267) writes only its own static timestamp  *)
(* and is left out.                                                         *)
(***************************************************************************)
EXTENDS Integers, Sequences, FiniteSets, TLC

VARIABLES
    pc,                 \* position in setup() / loop()
    millis,             \* millis(): 32-bit clock, [hi, lo]
    attempt,            \* setup: probe for-loop counter (line 94)
    probeCalls,         \* number of mlx.begin() calls made (line 104)
    probeOk,            \* some mlx.begin() returned true with SENSOR_SUCCESS
    mlxAddr,            \* I2C address at which mlx.begin() succeeded, 0 if none
    mlxSensorAvailable, \* line 17
    soilPower,          \* level of SOIL_POWER_PIN
    mlxPower,           \* level of MLX_POWER_PIN (LOW = sensor powered)
    loraInitResult,     \* line 141: <<>> until lora_rak4630_init() returned, then <<code>>
    stackResult,        \* line 157: <<>> until lmh_init() returned, then <<status>>
    credsSet,           \* lmh_setDevEui/AppEui/AppKey done (lines 172-174)
    lastSensorRead,     \* line 20, 32-bit
    lastJoinAttempt,    \* line 21, 32-bit
    joinInProgress,     \* line 24
    joinAttempts,       \* line 25
    joined,             \* stack: lmh_join_status_get()
    pending,            \* stack: a join request waits for its answer
    joinCalls,          \* number of lmh_join() calls made
    sinceJoin,          \* real ms since the last lmh_join() call
    irqEvent,           \* callback run by the last Radio.IrqProcess()
    sends,              \* number of send_lora_frame() / lmh_send() calls made
    sinceSend,          \* real ms since the last send_lora_frame() returned
    mlxReads,           \* number of mlx.getObjectTemp() calls made by send_lora_frame
    frame,              \* what the last send_lora_frame() sampled and handed to lmh_send()
    haltLogs,           \* number of halt log lines printed (lines 150, 165)
    sinceFail,          \* real ms since the join-failed callback ran, -1 once the next
                        \* join request is made (and before any failure)
    sendError           \* line 354: what the last lmh_send() returned, "none" before

vars == <<pc, millis, attempt, probeCalls, probeOk, mlxAddr, mlxSensorAvailable,
          soilPower, mlxPower, loraInitResult, stackResult, credsSet, lastSensorRead, lastJoinAttempt, joinInProgress,
          joinAttempts, joined, pending, joinCalls, sinceJoin, irqEvent, sends,
          sinceSend, mlxReads, frame, haltLogs, sinceFail, sendError>>

---------------------------------------------------------------------------
(* Program constants *)

Half == 65536
SENSOR_INTERVAL == 60000
JOIN_RETRY_INTERVAL == 120000
PROBE_ATTEMPTS == 3
ADDR_DEFAULT == 58
ADDR_ALT == 59
MLX_POWERUP_MS == 1000
PROBE_RETRY_MS == 500
HALT_DELAY_MS == 10000

(* Bounds of the exploration *)

MaxJoinAttempts == 3
MaxSends == 2
MaxHaltLogs == 3
MaxAnswerDelay == 125000
MaxSinceJoin == 260000

---------------------------------------------------------------------------
(* Unsigned 32-bit arithmetic on [hi, lo] *)

Lit32(n) == [hi |-> (n \div Half) % Half, lo |-> n % Half]

Add32(a, b) ==
    LET s == a.lo + b.lo
    IN  [hi |-> (a.hi + b.hi + (s \div Half)) % Half, lo |-> s % Half]

Sub32(a, b) ==
    LET d == a.lo - b.lo
        borrow == IF d < 0 THEN 1 ELSE 0
    IN  [hi |-> (a.hi - b.hi - borrow) % Half, lo |-> d % Half]

Lt32(a, b) == a.hi < b.hi \/ (a.hi = b.hi /\ a.lo < b.lo)
Gt32(a, b) == Lt32(b, a)
Ge32(a, b) == ~Lt32(a, b)

---------------------------------------------------------------------------
(* send_lora_frame: sampling and payload encoding (lines 272-361).          *)
(* A temperature reading is [nan, milli]: NaN, or thousandths of a degree   *)
(* Celsius; a float to integer conversion truncates toward zero, as in C.   *)

NaN == [nan |-> TRUE, milli |-> 0]
Celsius(milli) == [nan |-> FALSE, milli |-> milli]

\* C integer division: truncation toward zero
CDiv(a, b) ==
    LET q == (IF a < 0 THEN -a ELSE a) \div (IF b < 0 THEN -b ELSE b)
    IN  IF (a < 0) = (b < 0) THEN q ELSE -q

\* Arduino long map(long x, long in_min, long in_max, long out_min, long out_max)
ArduinoMap(x, in_min, in_max, out_min, out_max) ==
    CDiv((x - in_min) * (out_max - out_min), in_max - in_min) + out_min

\* Arduino constrain(amt, low, high)
Constrain(amt, low, high) ==
    IF amt < low THEN low ELSE IF amt > high THEN high ELSE amt

RECURSIVE SumSeq(_)
SumSeq(s) == IF s = <<>> THEN 0 ELSE Head(s) + SumSeq(Tail(s))

\* lines 283-288: int soilRaw = soilSum / 5
SoilAverage(readings) == CDiv(SumSeq(readings), 5)

\* variant: the two calibration points exchanged
SoilMoistureSwapped(soilRaw) ==
    Constrain(ArduinoMap(soilRaw, 1300, 3000, 0, 100), 0, 100)

\* lines 291-292: map, then constrain; the float holds map's integer result
SoilMoisture(soilRaw) == Constrain(ArduinoMap(soilRaw, 3000, 1300, 0, 100), 0, 100)

\* variant: the band closed at both ends
TempValidInclusive(temp) == ~temp.nan /\ temp.milli >= -40000 /\ temp.milli <= 85000

\* line 311: !isnan(temp) && temp > -40 && temp < 85
TempValid(temp) == ~temp.nan /\ temp.milli > -40000 /\ temp.milli < 85000

\* lines 303-322: float objectTemp = 25.0, replaced by a valid reading
ObjectTemp(avail, temp) == IF avail /\ TempValid(temp) THEN temp.milli ELSE 25000

\* line 332 / 334: (uint16_t)(value * 100), value a whole number
ScaleU16(value) == (value * 100) % Half

\* line 333: (int16_t)(objectTemp * 100), objectTemp in thousandths of a degree
ScaleI16(milli) ==
    LET t == CDiv(milli, 10) % Half
    IN  IF t >= 32768 THEN t - Half ELSE t

\* lines 336-341: (v >> 8) & 0xFF, v & 0xFF
HiByte(v) == (v \div 256) % 256
LoByte(v) == v % 256

\* variant: low byte first
PayloadLittleEndian(soilValue, tempValue, battValue) ==
    << LoByte(soilValue), HiByte(soilValue),
       LoByte(tempValue), HiByte(tempValue),
       LoByte(battValue), HiByte(battValue) >>

Payload(soilValue, tempValue, battValue) ==
    << HiByte(soilValue), LoByte(soilValue),
       HiByte(tempValue), LoByte(tempValue),
       HiByte(battValue), LoByte(battValue) >>

\* What one call of send_lora_frame samples, computes and hands to lmh_send.
\* readings: the five analogRead values; temp: what mlx.getObjectTemp() would
\* return; batt: BoardGetBatteryLevel().
SendLoraFrame(readings, temp, batt, avail) ==
    LET soilRaw      == SoilAverage(readings)
        soilMoisture == SoilMoisture(soilRaw)
        objectTemp   == ObjectTemp(avail, temp)
    IN  [ readings     |-> readings,
          soilRaw      |-> soilRaw,
          soilMoisture |-> soilMoisture,
          mlxPowered   |-> avail,
          temp         |-> IF avail THEN temp ELSE NaN,
          objectTemp   |-> objectTemp,
          batteryLevel |-> batt,
          soilValue    |-> ScaleU16(soilMoisture),
          tempValue    |-> ScaleI16(objectTemp),
          battValue    |-> ScaleU16(batt),
          data         |-> Payload(ScaleU16(soilMoisture), ScaleI16(objectTemp),
                                   ScaleU16(batt)),
          buffsize     |-> 6,
          port         |-> 2,
          confirmed    |-> FALSE ]

\* digitalWrite(pin, level)
Write(pin, level) == [pin |-> pin, level |-> level]

\* the level of pin after the writes, given its level before them
RECURSIVE LastWrite(_, _, _)
LastWrite(writes, pin, level) ==
    IF writes = <<>> THEN level
    ELSE LastWrite(Tail(writes), pin,
                   IF Head(writes).pin = pin THEN Head(writes).level ELSE level)

\* lines 70-87: both supplies off, then the MLX powered (LOW) for the probe
SetupPinWrites ==
    << Write("SOIL_POWER_PIN", "LOW"), Write("MLX_POWER_PIN", "HIGH"),
       Write("MLX_POWER_PIN", "LOW") >>

\* variant: the MLX supply switched off only next to a valid reading
SendPinWritesOffWhenValid(avail, temp) ==
    << Write("SOIL_POWER_PIN", "HIGH"), Write("SOIL_POWER_PIN", "LOW") >>
    \o (IF avail THEN << Write("MLX_POWER_PIN", "LOW") >> ELSE <<>>)
    \o (IF avail /\ TempValid(temp) THEN << Write("MLX_POWER_PIN", "HIGH") >> ELSE <<>>)

\* lines 279, 294, 307, 319: the digitalWrite calls of send_lora_frame in
\* order; the MLX supply is switched only when the sensor is available, and
\* off again after the if/else on the reading
SendPinWrites(avail, temp) ==
    << Write("SOIL_POWER_PIN", "HIGH"), Write("SOIL_POWER_PIN", "LOW") >>
    \o (IF avail
        THEN << Write("MLX_POWER_PIN", "LOW"), Write("MLX_POWER_PIN", "HIGH") >>
        ELSE <<>>)

\* delay(1000), five times delay(100), and delay(500) when the MLX is read
SendDuration(avail) == 1000 + 5 * 100 + (IF avail THEN 500 ELSE 0)

NoFrame ==
    [ readings |-> <<>>, soilRaw |-> -1, soilMoisture |-> -1, mlxPowered |-> FALSE, temp |-> NaN,
      objectTemp |-> 0, batteryLevel |-> -1, soilValue |-> 0, tempValue |-> 0,
      battValue |-> 0, data |-> <<>>, buffsize |-> 0, port |-> 0,
      confirmed |-> FALSE ]

---------------------------------------------------------------------------
(* The environment's choices *)

\* how long the host takes to open the serial port (line 58): at once, or so
\* late that millis() is about to roll over when the loop starts
BootWaits == { Lit32(0), [hi |-> 65534, lo |-> 0] }

\* mlx.begin(): "ok" returns true with SENSOR_SUCCESS, "status" returns true
\* with another status, "nack" returns false
ProbeResults == {"ok", "status", "nack"}

\* lora_rak4630_init() result
LoraInitResults == {0, 1}

\* lmh_init() result
LmhInitResults == {"LMH_SUCCESS", "LMH_ERROR"}

\* what Radio.IrqProcess() delivers
StackEvents == {"none", "joined", "failed"}

\* what lmh_join() itself delivers before it returns: nothing, or the
\* join-failed callback when the stack cannot send the request
SyncAnswers == {"none", "failed"}

\* the period of one loop iteration: delay(100) bounds it from below only
LoopDelays == {59900, 60100}

\* the iteration period sampled when checking progress
LiveDelays == {60100}

\* a patience no join request outlives: the stack may leave it unanswered
Unanswered == MaxSinceJoin + 1

\* lmh_send() result (line 354)
SendResults == {"LMH_SUCCESS", "LMH_ERROR"}
FrameResults == {"LMH_SUCCESS"}

\* sensor inputs of the join/send state machine
LoopReadings == { <<2000, 2000, 2000, 2000, 2000>> }
LoopTemps == { NaN, Celsius(21500) }
LoopBatts == { 41 }

\* sensor inputs when checking the sample record: analog readings around the
\* two calibration points and at the ends of the 12-bit range, five equal or
\* with a little noise
FrameBases == {0, 1023, 1298, 1299, 1300, 1301, 1317, 2000, 2150, 2983, 2998,
               2999, 3000, 3001, 4095}
FrameReadings ==
    { <<b, b, b, b, b>> : b \in FrameBases }
      \cup { <<b, b + 1, b, b + 2, b>> : b \in FrameBases \ {4095} }
FrameTemps == { NaN, Celsius(-40001), Celsius(-40000), Celsius(-39999),
                Celsius(-12345), Celsius(-5), Celsius(0), Celsius(21507),
                Celsius(84999), Celsius(85000), Celsius(85001), Celsius(120000) }
FrameBatts == {0, 255}
FrameDelays == {60000}

---------------------------------------------------------------------------
(* The callbacks *)

\* variant: the subtraction clamped at zero instead of wrapping
ArmSendTimerClamped(now) ==
    IF Lt32(now, Lit32(SENSOR_INTERVAL)) THEN Lit32(0)
    ELSE Sub32(now, Lit32(SENSOR_INTERVAL))

\* line 375: lastSensorRead = millis() - SENSOR_INTERVAL
ArmSendTimer(now) == Sub32(now, Lit32(SENSOR_INTERVAL))

\* lines 363-376, lorawan_has_joined_handler: the new values of
\* <<joinInProgress, lastSensorRead>>
HasJoinedHandler(now) == << FALSE, ArmSendTimer(now) >>

\* lines 378-398, lorawan_join_failed_handler: the new value of joinInProgress
\* and whether the handler calls lmh_join() itself
JoinFailedHandler == [ joinInProgress |-> FALSE, callsJoin |-> FALSE ]

\* variant: the flag raised after lmh_join() has returned
JoinCallSiteFlagLast(sync) == TRUE

\* lines 213-218 and 244-246: joinInProgress = true, then lmh_join(); the
\* value of joinInProgress when the call site is left
JoinCallSite(sync) ==
    IF sync = "failed" THEN JoinFailedHandler.joinInProgress ELSE TRUE

---------------------------------------------------------------------------
(* setup() *)

Init ==
    /\ pc = "serial"
    /\ millis = Lit32(0)
    /\ attempt = 0
    /\ probeCalls = 0
    /\ probeOk = FALSE
    /\ mlxAddr = 0
    /\ mlxSensorAvailable = FALSE
    /\ soilPower = "FLOAT"
    /\ mlxPower = "FLOAT"
    /\ loraInitResult = <<>>
    /\ stackResult = <<>>
    /\ credsSet = FALSE
    /\ lastSensorRead = Lit32(0)
    /\ lastJoinAttempt = Lit32(0)
    /\ joinInProgress = FALSE
    /\ joinAttempts = 0
    /\ joined = FALSE
    /\ pending = FALSE
    /\ joinCalls = 0
    /\ sinceJoin = 0
    /\ irqEvent = "none"
    /\ sends = 0
    /\ sinceSend = 0
    /\ mlxReads = 0
    /\ frame = NoFrame
    /\ haltLogs = 0
    /\ sinceFail = -1
    /\ sendError = "none"

\* lines 56-88: wait for Serial, GPIO, I2C, power the MLX on, delay(1000)
SetupBegin ==
    /\ pc = "serial"
    /\ \E w \in BootWaits :
          millis' = Add32(Add32(millis, w), Lit32(MLX_POWERUP_MS))
    /\ soilPower' = LastWrite(SetupPinWrites, "SOIL_POWER_PIN", soilPower)
    /\ mlxPower' = LastWrite(SetupPinWrites, "MLX_POWER_PIN", mlxPower)
    /\ pc' = "probe"
    /\ UNCHANGED <<attempt, probeCalls, probeOk, mlxAddr, mlxSensorAvailable, loraInitResult, stackResult, credsSet,
                   lastSensorRead, lastJoinAttempt, joinInProgress, joinAttempts,
                   joined, pending, joinCalls, sinceJoin, irqEvent, sends,
                   sinceSend, mlxReads, frame, haltLogs, sinceFail, sendError>>

\* variant: <= in place of < on line 94
ProbeAgainOffByOne(n) == n <= PROBE_ATTEMPTS

\* line 94: for (int attempt = 0; attempt < 3; attempt++)
ProbeAgain(n) == n < PROBE_ATTEMPTS

\* lines 104-105: mlx.begin(...) returned true and sensorStatus is SENSOR_SUCCESS
ProbeSucceeded(r) == r = "ok"

\* lines 94-119: one iteration of the probe loop, trying 0x3A (r1) then, unless
\* that succeeded, 0x3B (r2)
SetupProbe ==
    /\ pc = "probe"
    /\ \E r1 \in ProbeResults, r2 \in ProbeResults :
          /\ probeOk' = (probeOk \/ r1 = "ok" \/ (~ProbeSucceeded(r1) /\ r2 = "ok"))
          /\ IF ProbeSucceeded(r1) \/ ProbeSucceeded(r2)
             THEN /\ probeCalls' = probeCalls + (IF ProbeSucceeded(r1) THEN 1 ELSE 2)
                  /\ mlxAddr' = (IF ProbeSucceeded(r1) THEN ADDR_DEFAULT ELSE ADDR_ALT)
                  /\ mlxSensorAvailable' = TRUE
                  /\ pc' = "probed"
                  /\ UNCHANGED <<attempt, millis>>
             ELSE /\ probeCalls' = probeCalls + 2
                  /\ millis' = Add32(millis, Lit32(PROBE_RETRY_MS))
                  /\ attempt' = attempt + 1
                  /\ pc' = (IF ProbeAgain(attempt + 1) THEN "probe" ELSE "probed")
                  /\ UNCHANGED <<mlxAddr, mlxSensorAvailable>>
    /\ UNCHANGED <<soilPower, mlxPower, loraInitResult, stackResult, credsSet, lastSensorRead, lastJoinAttempt,
                   joinInProgress, joinAttempts, joined, pending, joinCalls,
                   sinceJoin, irqEvent, sends, sinceSend, mlxReads, frame, haltLogs, sinceFail, sendError>>

\* lines 121-135: test reading (printed only), power the MLX off; the loop
\* counter goes out of scope
SetupProbeDone ==
    /\ pc = "probed"
    /\ mlxPower' = "HIGH"
    /\ attempt' = 0
    /\ pc' = "lora_init"
    /\ UNCHANGED <<millis, probeCalls, probeOk, mlxAddr, mlxSensorAvailable, soilPower,
                   loraInitResult, stackResult, credsSet, lastSensorRead, lastJoinAttempt, joinInProgress,
                   joinAttempts, joined, pending, joinCalls, sinceJoin, irqEvent,
                   sends, sinceSend, mlxReads, frame, haltLogs, sinceFail, sendError>>

\* variant: the result of lora_rak4630_init() ignored
LoraInitIgnored(res) == TRUE

\* line 142 / line 158: does setup go on after this initialisation result?
LoraInitOk(res) == res = 0
LmhInitOk(res) == res = "LMH_SUCCESS"

\* lines 141-153: lora_rak4630_init()
SetupLoraInit ==
    /\ pc = "lora_init"
    /\ \E res \in LoraInitResults :
          /\ loraInitResult' = <<res>>
          /\ pc' = (IF LoraInitOk(res) THEN "lmh_init" ELSE "halt_lora")
    /\ UNCHANGED <<millis, attempt, probeCalls, probeOk, mlxAddr, mlxSensorAvailable,
                   soilPower, mlxPower, stackResult, credsSet, lastSensorRead, lastJoinAttempt,
                   joinInProgress, joinAttempts, joined, pending, joinCalls,
                   sinceJoin, irqEvent, sends, sinceSend, mlxReads, frame, haltLogs, sinceFail, sendError>>

\* lines 155-168: lmh_init()
SetupLmhInit ==
    /\ pc = "lmh_init"
    /\ \E res \in LmhInitResults :
          /\ stackResult' = <<res>>
          /\ pc' = (IF LmhInitOk(res) THEN "join" ELSE "halt_stack")
    /\ UNCHANGED <<millis, attempt, probeCalls, probeOk, mlxAddr, mlxSensorAvailable,
                   soilPower, mlxPower, loraInitResult, credsSet, lastSensorRead, lastJoinAttempt,
                   joinInProgress, joinAttempts, joined, pending, joinCalls,
                   sinceJoin, irqEvent, sends, sinceSend, mlxReads, frame, haltLogs, sinceFail, sendError>>

\* where a halt loop goes after its delay(10000): nowhere
HaltNext(at) == at

\* lines 149-152 and 164-167: while(1) { println; delay(10000); }
Halt ==
    /\ pc \in {"halt_lora", "halt_stack"}
    /\ haltLogs < MaxHaltLogs
    /\ haltLogs' = haltLogs + 1
    /\ millis' = Add32(millis, Lit32(HALT_DELAY_MS))
    /\ pc' = HaltNext(pc)
    /\ UNCHANGED <<attempt, probeCalls, probeOk, mlxAddr, mlxSensorAvailable, soilPower,
                   mlxPower, loraInitResult, stackResult, credsSet, lastSensorRead, lastJoinAttempt,
                   joinInProgress, joinAttempts, joined, pending, joinCalls,
                   sinceJoin, irqEvent, sends, sinceSend, mlxReads, frame, sinceFail, sendError>>

\* lines 170-228: credentials, then the first join request
SetupJoin ==
    /\ pc = "join"
    /\ credsSet' = TRUE
    /\ joinAttempts' = 1
    /\ lastJoinAttempt' = millis
    /\ joinCalls' = joinCalls + 1
    /\ sinceJoin' = 0
    /\ \E sync \in SyncAnswers :
          /\ joinInProgress' = JoinCallSite(sync)
          /\ pending' = (sync = "none")
          /\ sinceFail' = (IF sync = "failed" THEN 0 ELSE -1)
    /\ pc' = "irq"
    /\ UNCHANGED <<millis, attempt, probeCalls, probeOk, mlxAddr, mlxSensorAvailable,
                   soilPower, mlxPower, loraInitResult, stackResult, lastSensorRead,
                   joined, irqEvent, sends,
                   sinceSend, mlxReads, frame, haltLogs, sendError>>

---------------------------------------------------------------------------
(* loop() *)

\* variant: >= in place of > on line 236
RetryDueAtInterval(now) ==
    /\ ~joined
    /\ ~joinInProgress
    /\ Ge32(Sub32(now, lastJoinAttempt), Lit32(JOIN_RETRY_INTERVAL))

\* variant: the retry gives up after the second attempt
RetryDueTwice(now) ==
    /\ ~joined
    /\ ~joinInProgress
    /\ joinAttempts < 2
    /\ Gt32(Sub32(now, lastJoinAttempt), Lit32(JOIN_RETRY_INTERVAL))

\* variant: the deadline lastJoinAttempt + JOIN_RETRY_INTERVAL compared with
\* the clock, in place of the elapsed time with the interval
RetryDueAbsolute(now) ==
    /\ ~joined
    /\ ~joinInProgress
    /\ Gt32(now, Add32(lastJoinAttempt, Lit32(JOIN_RETRY_INTERVAL)))

\* lines 235-236
RetryDue(now) ==
    /\ ~joined
    /\ ~joinInProgress
    /\ Gt32(Sub32(now, lastJoinAttempt), Lit32(JOIN_RETRY_INTERVAL))

\* variant: the interval test of line 250 dropped
SendDueNoTimer(now) == joined

\* line 250
SendDue(now) ==
    /\ joined
    /\ Ge32(Sub32(now, lastSensorRead), Lit32(SENSOR_INTERVAL))

\* line 232, Radio.IrqProcess(): the stack answers the pending join request
\* with one of the two callbacks, or has nothing to deliver; a request older
\* than Patience ms is answered now
LoopIrq(Patience) ==
    /\ pc = "irq"
    /\ \E ev \in StackEvents :
          /\ ev # "none" => pending
          /\ (ev = "none" /\ pending) => sinceJoin < Patience
          /\ irqEvent' = ev
          /\ pending' = ((pending /\ ev = "none")
                          \/ (ev = "failed" /\ JoinFailedHandler.callsJoin))
          /\ joined' = (joined \/ ev = "joined")
          /\ joinInProgress' =
                (CASE ev = "joined" -> HasJoinedHandler(millis)[1]
                   [] ev = "failed" -> JoinFailedHandler.joinInProgress
                   [] OTHER -> joinInProgress)
          /\ lastSensorRead' =
                (IF ev = "joined" THEN HasJoinedHandler(millis)[2] ELSE lastSensorRead)
          /\ joinCalls' =
                (IF ev = "failed" /\ JoinFailedHandler.callsJoin
                 THEN joinCalls + 1 ELSE joinCalls)
          /\ sinceFail' = (IF ev = "failed" THEN 0 ELSE sinceFail)
    /\ pc' = "retry"
    /\ UNCHANGED <<millis, attempt, probeCalls, probeOk, mlxAddr, mlxSensorAvailable,
                   soilPower, mlxPower, loraInitResult, stackResult, credsSet, lastJoinAttempt, joinAttempts,
                   sinceJoin, sends, sinceSend, mlxReads, frame, haltLogs, sendError>>

\* variant: the retry does not count itself
RetryAttemptsKept(n) == n

\* line 238: joinAttempts++
RetryAttempts(n) == n + 1

\* lines 234-247: the join retry
LoopRetry ==
    /\ pc = "retry"
    /\ IF RetryDue(millis)
       THEN /\ joinAttempts < MaxJoinAttempts
            /\ joinAttempts' = RetryAttempts(joinAttempts)
            /\ lastJoinAttempt' = millis
            /\ joinCalls' = joinCalls + 1
            /\ sinceJoin' = 0
            /\ \E sync \in SyncAnswers :
                  /\ joinInProgress' = JoinCallSite(sync)
                  /\ pending' = (sync = "none")
                  /\ sinceFail' = (IF sync = "failed" THEN 0 ELSE -1)
       ELSE UNCHANGED <<joinAttempts, joinInProgress, lastJoinAttempt, pending,
                        joinCalls, sinceJoin, sinceFail>>
    /\ pc' = "send"
    /\ UNCHANGED <<millis, attempt, probeCalls, probeOk, mlxAddr, mlxSensorAvailable,
                   soilPower, mlxPower, loraInitResult, stackResult, credsSet, lastSensorRead, joined, irqEvent,
                   sends, sinceSend, mlxReads, frame, haltLogs, sendError>>

\* variant: the send timer restarted only when lmh_send() succeeded
StampAfterSendOnSuccess(now, error, last) ==
    IF error = "LMH_SUCCESS" THEN now ELSE last

\* line 252: lastSensorRead = millis(), whatever send_lora_frame() logged
StampAfterSend(now, error, last) == now

\* lines 249-253: send_lora_frame(), then lastSensorRead = millis()
LoopSend(Readings, Temps, Batts, Results) ==
    /\ pc = "send"
    /\ IF SendDue(millis)
       THEN /\ sends < MaxSends
            /\ \E readings \in Readings, temp \in Temps, batt \in Batts :
                  /\ frame' = SendLoraFrame(readings, temp, batt, mlxSensorAvailable)
                  /\ soilPower' =
                        LastWrite(SendPinWrites(mlxSensorAvailable, temp),
                                  "SOIL_POWER_PIN", soilPower)
                  /\ mlxPower' =
                        LastWrite(SendPinWrites(mlxSensorAvailable, temp),
                                  "MLX_POWER_PIN", mlxPower)
            /\ sends' = sends + 1
            /\ mlxReads' = mlxReads + (IF mlxSensorAvailable THEN 1 ELSE 0)
            /\ millis' = Add32(millis, Lit32(SendDuration(mlxSensorAvailable)))
            /\ \E error \in Results :
                  /\ sendError' = error
                  /\ lastSensorRead' = StampAfterSend(millis', error, lastSensorRead)
            /\ sinceSend' = 0
            /\ sinceJoin' = sinceJoin + SendDuration(mlxSensorAvailable)
       ELSE UNCHANGED <<frame, sends, mlxReads, millis, lastSensorRead, sinceSend,
                        sinceJoin, soilPower, mlxPower, sendError>>
    /\ pc' = "delay"
    /\ UNCHANGED <<attempt, probeCalls, probeOk, mlxAddr, mlxSensorAvailable, loraInitResult, stackResult, credsSet,
                   lastJoinAttempt, joinInProgress, joinAttempts, joined, pending,
                   joinCalls, irqEvent, haltLogs, sinceFail>>

\* line 269: delay(100) ends the iteration
LoopDelay(Delays) ==
    /\ pc = "delay"
    /\ \E d \in Delays :
          /\ joined \/ sinceJoin + d <= MaxSinceJoin
          /\ millis' = Add32(millis, Lit32(d))
          /\ sinceJoin' = sinceJoin + d
          /\ sinceSend' = (IF sends > 0 THEN sinceSend + d ELSE sinceSend)
          /\ sinceFail' = (IF sinceFail >= 0 THEN sinceFail + d ELSE sinceFail)
    /\ pc' = "irq"
    /\ UNCHANGED <<attempt, probeCalls, probeOk, mlxAddr, mlxSensorAvailable, soilPower,
                   mlxPower, loraInitResult, stackResult, credsSet, lastSensorRead, lastJoinAttempt,
                   joinInProgress, joinAttempts, joined, pending, joinCalls,
                   irqEvent, sends, mlxReads, frame, haltLogs, sendError>>

---------------------------------------------------------------------------
(* Specifications *)

Next ==
    \/ SetupBegin
    \/ SetupProbe
    \/ SetupProbeDone
    \/ SetupLoraInit
    \/ SetupLmhInit
    \/ Halt
    \/ SetupJoin
    \/ LoopIrq(MaxAnswerDelay)
    \/ LoopRetry
    \/ LoopSend(LoopReadings, LoopTemps, LoopBatts, SendResults)
    \/ LoopDelay(LoopDelays)

Spec == Init /\ [][Next]_vars

NextLive ==
    \/ SetupBegin
    \/ SetupProbe
    \/ SetupProbeDone
    \/ SetupLoraInit
    \/ SetupLmhInit
    \/ Halt
    \/ SetupJoin
    \/ LoopIrq(MaxAnswerDelay)
    \/ LoopRetry
    \/ LoopSend(LoopReadings, LoopTemps, LoopBatts, FrameResults)
    \/ LoopDelay(LiveDelays)

\* the loop runs on, time advances, and the stack answers every join request
SpecLive == Init /\ [][NextLive]_vars /\ WF_vars(NextLive)

NextSilent ==
    \/ SetupBegin
    \/ SetupProbe
    \/ SetupProbeDone
    \/ SetupLoraInit
    \/ SetupLmhInit
    \/ Halt
    \/ SetupJoin
    \/ LoopIrq(Unanswered)
    \/ LoopRetry
    \/ LoopSend(LoopReadings, LoopTemps, LoopBatts, FrameResults)
    \/ LoopDelay(LoopDelays)

\* the stack may answer a join request at any time, or never
SpecSilent == Init /\ [][NextSilent]_vars

\* The loop at its first send: the sensor was found by the first probe or not
\* found at all, both initialisations succeeded and the first join request was
\* answered with success in the first Radio.IrqProcess().
InitFrame ==
    \E avail \in BOOLEAN :
        /\ pc = "send"
        /\ millis = Lit32(MLX_POWERUP_MS
                          + (IF avail THEN 0 ELSE PROBE_ATTEMPTS * PROBE_RETRY_MS))
        /\ attempt = 0
        /\ probeCalls = (IF avail THEN 1 ELSE 2 * PROBE_ATTEMPTS)
        /\ probeOk = avail
        /\ mlxAddr = (IF avail THEN ADDR_DEFAULT ELSE 0)
        /\ mlxSensorAvailable = avail
        /\ soilPower = "LOW"
        /\ mlxPower = "HIGH"
        /\ loraInitResult = <<0>>
        /\ stackResult = <<"LMH_SUCCESS">>
        /\ credsSet = TRUE
        /\ lastSensorRead = HasJoinedHandler(millis)[2]
        /\ lastJoinAttempt = millis
        /\ joinInProgress = HasJoinedHandler(millis)[1]
        /\ joinAttempts = 1
        /\ joined = TRUE
        /\ pending = FALSE
        /\ joinCalls = 1
        /\ sinceJoin = 0
        /\ irqEvent = "joined"
        /\ sends = 0
        /\ sinceSend = 0
        /\ mlxReads = 0
        /\ frame = NoFrame
        /\ haltLogs = 0
    /\ sinceFail = -1
    /\ sendError = "none"

NextFrame ==
    \/ LoopIrq(Unanswered)
    \/ LoopRetry
    \/ LoopSend(FrameReadings, FrameTemps, FrameBatts, FrameResults)
    \/ LoopDelay(FrameDelays)

\* the joined loop, with the sensor inputs ranging over the Frame sets
SpecFrame == InitFrame /\ [][NextFrame]_vars

---------------------------------------------------------------------------
(* Join supervision and send cadence *)

\* C1: when lorawan_has_joined_handler has run in this iteration's
\* Radio.IrqProcess(), joinInProgress is clear and the send condition of line
\* 250 is true when the loop reaches it, at every uptime (also below 60 s,
\* where millis() - SENSOR_INTERVAL wraps); the first uplink goes out in that
\* same iteration.
C1_FirstSendImmediate ==
    /\ (pc \in {"retry", "send"} /\ irqEvent = "joined") =>
          (~joinInProgress /\ joined /\ SendDue(millis))
    /\ (pc = "delay" /\ irqEvent = "joined") => (sends >= 1 /\ sinceSend = 0)

\* the join succeeded less than 60 s after power-on: the armed timer wrapped
C1_Witness ==
    /\ pc = "send"
    /\ irqEvent = "joined"
    /\ Lt32(millis, Lit32(SENSOR_INTERVAL))
    /\ Gt32(lastSensorRead, millis)
    /\ sends = 0

\* C2: the join-failed callback clears joinInProgress and calls lmh_join() not
\* at all; lmh_join() is called only by setup (first) and by the loop's retry,
\* and the retry only when more than JOIN_RETRY_INTERVAL ms have passed since
\* lastJoinAttempt: consecutive lmh_join() calls are more than 120 s apart.
C2_RetryAfterInterval ==
    [][ /\ (pc = "irq" /\ irqEvent' = "failed") =>
              (joinInProgress' = FALSE /\ joinCalls' = joinCalls)
        /\ (joinCalls' # joinCalls) =>
              /\ joinCalls' = joinCalls + 1
              /\ pc = (IF joinCalls = 0 THEN "join" ELSE "retry")
              /\ joinCalls > 0 =>
                    /\ sinceJoin > JOIN_RETRY_INTERVAL
                    /\ Gt32(Sub32(millis, lastJoinAttempt), Lit32(JOIN_RETRY_INTERVAL))
      ]_vars

\* a retry was started in the iteration that delivered the failure
C2_Witness == joinCalls = 2 /\ pending /\ irqEvent = "failed" /\ pc = "send"

\* C3: while not joined, every join attempt is followed by another one (or by
\* the join): the retry never gives up.
C3_RetriesUntilJoined ==
    \A n \in 1 .. (MaxJoinAttempts - 1) :
        (joinCalls = n /\ ~joined) ~> (joinCalls = n + 1 \/ joined)

\* the third attempt was started after two failures
C3_Witness == joinCalls = 3 /\ ~joined /\ pending

\* C11: once lorawan_join_failed_handler has reported a failure ("Will retry
\* in 120 seconds..."), the next lmh_join() call comes no sooner than
\* JOIN_RETRY_INTERVAL ms after that report.
C11_RetryAfterFailureReport ==
    [][ (joinCalls' # joinCalls /\ sinceFail >= 0) =>
            sinceFail >= JOIN_RETRY_INTERVAL
      ]_vars

\* C4: send_lora_frame is called only by the loop's send step with the device
\* joined, and not sooner than SENSOR_INTERVAL ms after the previous call
\* returned.
C4_SendGated ==
    [][ (sends' # sends) =>
            /\ sends' = sends + 1
            /\ pc = "send"
            /\ joined
            /\ sends > 0 => sinceSend >= SENSOR_INTERVAL
      ]_vars

\* two uplinks have been sent
C4_Witness == sends = 2 /\ sinceSend = 0 /\ pc = "delay"

\* C12: at most one join request is unanswered at any time.  Every lmh_join()
\* call is made with joinInProgress clear, the device not joined and no
\* request pending, and leaves joinInProgress set exactly when the request is
\* still unanswered (a failure delivered during the call is not overwritten);
\* only a callback clears joinInProgress; while a request stays unanswered no
\* other is made, however long that lasts.
C12_OneJoinPending ==
    /\ [] ( /\ pending <=> joinInProgress
            /\ pending => ~joined )
    /\ [][ (joinCalls' # joinCalls) =>
              /\ ~joinInProgress /\ ~joined /\ ~pending
              /\ joinInProgress' = pending'
              /\ ~joined'
         ]_vars
    /\ [][ (joinInProgress /\ ~joinInProgress') =>
              (pc = "irq" /\ irqEvent' \in {"joined", "failed"} /\ ~pending')
         ]_vars
    /\ [][ (pending /\ pending') => joinCalls' = joinCalls ]_vars

\* the first request is still unanswered after more than twice the retry
\* interval, and the loop has passed its retry step again without retrying
C12_Witness ==
    /\ pc = "send"
    /\ pending /\ joinInProgress
    /\ joinCalls = 1
    /\ sinceJoin > 2 * JOIN_RETRY_INTERVAL

\* C13: whatever lmh_send() returned, the loop restarts the send timer when
\* send_lora_frame() returns, so the call after a failed one comes no sooner
\* than SENSOR_INTERVAL ms later and carries a sample of its own; a send
\* changes nothing of the join state.
C13_FailedSendNotRetried ==
    [][ (sends' # sends) =>
            /\ lastSensorRead' = millis'
            /\ (sends > 0 /\ sendError # "LMH_SUCCESS") => sinceSend >= SENSOR_INTERVAL
            /\ frame' = SendLoraFrame(frame'.readings, frame'.temp,
                                      frame'.batteryLevel, mlxSensorAvailable)
            /\ UNCHANGED <<joined, joinInProgress, joinAttempts, lastJoinAttempt,
                           pending, joinCalls>>
      ]_vars

\* 59.9 s after a failed uplink the loop passes its send step without sending
C13_Witness ==
    /\ pc = "send"
    /\ sends = 1
    /\ sendError = "LMH_ERROR"
    /\ sinceSend = 59900
    /\ ~SendDue(millis)

\* C14: the 32-bit differences millis() - lastJoinAttempt and
\* millis() - lastSensorRead are the real elapsed times, also when millis()
\* has rolled over in between, so the retry test is true exactly when more
\* than JOIN_RETRY_INTERVAL ms have really passed (and no join is under way),
\* and the send test exactly when at least SENSOR_INTERVAL ms have: the
\* rollover brings neither an early nor a missed retry or uplink.
C14_RolloverSafe ==
    /\ (joinCalls > 0 /\ ~joined) =>
          Sub32(millis, lastJoinAttempt) = Lit32(sinceJoin)
    /\ sends > 0 => Sub32(millis, lastSensorRead) = Lit32(sinceSend)
    /\ pc = "retry" =>
          (RetryDue(millis) <=>
              (~joined /\ ~joinInProgress /\ sinceJoin > JOIN_RETRY_INTERVAL))
    /\ pc = "send" =>
          (SendDue(millis) <=>
              (joined /\ (sends = 0 \/ sinceSend >= SENSOR_INTERVAL)))

\* millis() rolled over after the second join request, and the third is due
C14_Witness ==
    /\ pc = "retry"
    /\ joinCalls = 2
    /\ Lt32(millis, lastJoinAttempt)
    /\ RetryDue(millis)

\* C16: joinAttempts is the number of lmh_join() calls made: 0 before the
\* first, 1 after setup, one more with each retry of the loop and changed by
\* nothing else (no callback, no send); the number a callback prints is
\* therefore that of the request it answers, the latest one.
C16_AttemptsCountJoins ==
    /\ [] ( /\ joinAttempts = joinCalls
            /\ pc \in {"irq", "retry", "send", "delay"} => joinAttempts >= 1
            /\ pending => joinAttempts >= 1 )
    /\ [][ (joinAttempts' # joinAttempts) =>
              /\ joinAttempts' = joinAttempts + 1
              /\ joinCalls' = joinCalls + 1
              /\ pc = (IF joinAttempts = 0 THEN "join" ELSE "retry")
         ]_vars
    /\ [][ (pc = "irq" \/ sends' # sends) => joinAttempts' = joinAttempts ]_vars

\* the join-success callback ran for the third request
C16_Witness ==
    /\ pc = "retry"
    /\ irqEvent = "joined"
    /\ joinCalls = 3

---------------------------------------------------------------------------
(* The sample record *)

BE16(hi, lo) == hi * 256 + lo
Signed16(u) == IF u >= 32768 THEN u - 65536 ELSE u
Truncated(milli) == IF milli >= 0 THEN milli \div 10 ELSE -((-milli) \div 10)

\* C5: soilRaw is the truncated mean of the five readings; the percentage is 0
\* from the dry point (3000) up, 100 from the wet point (1300) down and
\* (3000 - soilRaw) * 100 / 1700 in whole numbers in between; it lies in
\* 0..100 and does not increase with soilRaw.
C5_SoilMapping ==
    sends > 0 =>
        LET r == frame.soilRaw
            m == frame.soilMoisture
            sum == SumSeq(frame.readings)
        IN  /\ Len(frame.readings) = 5
            /\ 5 * r <= sum /\ sum < 5 * r + 5
            /\ r >= 3000 => m = 0
            /\ r <= 1300 => m = 100
            /\ (1300 < r /\ r < 3000) => m = ((3000 - r) * 100) \div 1700
            /\ m \in 0 .. 100
            /\ \A r2 \in FrameBases \cup {r + 1} :
                  /\ r2 >= r => SoilMoisture(r2) <= m
                  /\ r2 <= r => SoilMoisture(r2) >= m

\* a mean strictly between the calibration points that is not a whole multiple
\* of the sum, mapped strictly inside the range
C5_Witness ==
    /\ sends > 0
    /\ 1300 < frame.soilRaw /\ frame.soilRaw < 3000
    /\ SumSeq(frame.readings) % 5 # 0
    /\ 0 < frame.soilMoisture /\ frame.soilMoisture < 100

\* C6: between the calibration points the soil field is the interpolated
\* percentage to one hundredth of a percent, (3000 - soilRaw) * 10000 / 1700
\* to within one unit.
C6_SoilHundredths ==
    (sends > 0 /\ 1300 < frame.soilRaw /\ frame.soilRaw < 3000) =>
        LET exact17 == (3000 - frame.soilRaw) * 100
            got17   == frame.soilValue * 17
        IN  got17 - exact17 < 17 /\ exact17 - got17 < 17

\* C7: the temperature sent is 25.0 (2500) when the sensor is unavailable or
\* the reading is NaN, <= -40 or >= 85, and the reading itself otherwise; an
\* unavailable sensor is neither powered nor read.
C7_TemperatureFallback ==
    sends > 0 =>
        LET fallback == \/ ~mlxSensorAvailable
                        \/ frame.temp.nan
                        \/ frame.temp.milli <= -40000
                        \/ frame.temp.milli >= 85000
        IN  /\ fallback => (frame.objectTemp = 25000 /\ frame.tempValue = 2500)
            /\ ~fallback => /\ frame.objectTemp = frame.temp.milli
                            /\ frame.tempValue = Truncated(frame.temp.milli)
            /\ frame.mlxPowered = mlxSensorAvailable
            /\ mlxReads = (IF mlxSensorAvailable THEN sends ELSE 0)

\* an available sensor read exactly -40.000
C7_Witness ==
    /\ sends > 0
    /\ mlxSensorAvailable
    /\ frame.temp = Celsius(-40000)
    /\ frame.tempValue = 2500

\* C8: 6 bytes on port 2, unconfirmed; the three big-endian pairs decode to
\* soil percentage x 100 (0..10000), temperature x 100 (two's complement) and
\* battery value x 100.
C8_PayloadLayout ==
    sends > 0 =>
        /\ Len(frame.data) = 6
        /\ frame.buffsize = 6
        /\ frame.port = 2
        /\ ~frame.confirmed
        /\ \A i \in 1 .. 6 : frame.data[i] \in 0 .. 255
        /\ BE16(frame.data[1], frame.data[2]) = frame.soilMoisture * 100
        /\ BE16(frame.data[1], frame.data[2]) \in 0 .. 10000
        /\ Signed16(BE16(frame.data[3], frame.data[4])) = Truncated(frame.objectTemp)
        /\ BE16(frame.data[5], frame.data[6]) = frame.batteryLevel * 100

\* a negative temperature whose two bytes differ, with a fractional soil mean
C8_Witness ==
    /\ sends > 0
    /\ frame.objectTemp = -12345
    /\ frame.data[3] = 251 /\ frame.data[4] = 46
    /\ frame.soilMoisture = 58
    /\ frame.batteryLevel = 255

---------------------------------------------------------------------------
(* setup(): initialisation failures and the sensor probe *)

Halted == pc \in {"halt_lora", "halt_stack"}
Probing == pc \in {"serial", "probe"}

\* C9: a non-zero lora_rak4630_init() or a failed lmh_init() leaves setup in
\* its halt loop for good: no credentials, no lmh_join(), no loop iteration,
\* no uplink; each step there prints the halt line and waits, nothing else.
C9_HaltForever ==
    /\ [] ( /\ (loraInitResult # <<>> /\ loraInitResult # <<0>>) => pc = "halt_lora"
            /\ (stackResult # <<>> /\ stackResult # <<"LMH_SUCCESS">>) =>
                  pc = "halt_stack"
            /\ Halted => /\ ~credsSet
                         /\ joinCalls = 0 /\ joinAttempts = 0
                         /\ ~pending /\ ~joined /\ ~joinInProgress
                         /\ irqEvent = "none"
                         /\ sends = 0 /\ frame = NoFrame )
    /\ [][ Halted =>
              /\ pc' = pc
              /\ haltLogs' = haltLogs + 1
              /\ UNCHANGED <<attempt, probeCalls, probeOk, mlxAddr,
                             mlxSensorAvailable, soilPower, mlxPower,
                             loraInitResult, stackResult, credsSet, lastSensorRead,
                             lastJoinAttempt, joinInProgress, joinAttempts, joined,
                             pending, joinCalls, sinceJoin, irqEvent, sends,
                             sinceSend, mlxReads, frame, sinceFail, sendError>>
         ]_vars

\* the radio chip came up, lmh_init() failed, and the halt line was printed twice
C9_Witness ==
    /\ pc = "halt_stack"
    /\ loraInitResult = <<0>>
    /\ stackResult = <<"LMH_ERROR">>
    /\ haltLogs = 2

\* C10: at most 3 probe attempts of two mlx.begin() calls each (0x3A, then
\* 0x3B), ended by the first call that returns true with SENSOR_SUCCESS;
\* mlxSensorAvailable tells whether one did and is fixed once probing is over;
\* found or not, setup goes on to the radio initialisation.
C10_ProbeBounded ==
    /\ [] ( /\ attempt <= PROBE_ATTEMPTS
            /\ probeCalls <= 2 * PROBE_ATTEMPTS
            /\ mlxSensorAvailable <=> probeOk
            /\ mlxSensorAvailable =>
                  mlxAddr = (IF probeCalls % 2 = 1 THEN ADDR_DEFAULT ELSE ADDR_ALT)
            /\ Probing => (~mlxSensorAvailable /\ probeCalls = 2 * attempt)
            /\ (~Probing /\ ~mlxSensorAvailable) =>
                  (probeCalls = 2 * PROBE_ATTEMPTS /\ mlxAddr = 0)
            /\ joinCalls > 0 => ~Probing )
    /\ [][ ~Probing =>
              (mlxSensorAvailable' = mlxSensorAvailable /\ probeCalls' = probeCalls)
         ]_vars
    /\ [][ pc = "probed" => pc' = "lora_init" ]_vars

\* the sensor was not found in six calls and the first join request was made
C10_Witness ==
    /\ ~mlxSensorAvailable
    /\ probeCalls = 2 * PROBE_ATTEMPTS
    /\ joinCalls = 1
    /\ pc = "irq"

---------------------------------------------------------------------------
(* Sensor supplies *)

\* C15: once setup has finished the sensor probe (sensor found or not), and
\* so at the start of every loop iteration and after every send_lora_frame()
\* (reading valid or not, sensor available or not, uplink accepted or not),
\* the soil supply is off (LOW) and the MLX supply is off (HIGH); during the
\* probe only the MLX is powered.
C15_SensorsOff ==
    /\ pc \in {"probe", "probed"} => (soilPower = "LOW" /\ mlxPower = "LOW")
    /\ pc \notin {"serial", "probe", "probed"} =>
          (soilPower = "LOW" /\ mlxPower = "HIGH")

\* send_lora_frame() returned after an invalid reading of an available
\* sensor and a refused uplink
C15_Witness ==
    /\ pc = "delay"
    /\ sends > 0 /\ sinceSend = 0
    /\ mlxSensorAvailable
    /\ frame.temp.nan
    /\ sendError = "LMH_ERROR"

====
